---- MODULE Spec2Model ----
(***************************************************************************)
(* Model of DIYbyt: the render server (DIYbyt-Server/pixlet_renderer.py),  *)
(* the display client's metadata loader (DIYbyt-Client/.../DIYbyt_Display  *)
(* .py) and the sync service (DIYbyt-Sync/sync_service.py).                *)
(*                                                                         *)
(* Conventions.  A file system is a function from paths to file contents;  *)
(* paths and contents are sequences of byte values.  A program name is one *)
(* byte n and its source file is the path <<n>> below the directory root.  *)
(* The text of program_metadata.json is a byte sequence in a compact       *)
(* stand-in for JSON that json_load parses: a tag byte (object or array)   *)
(* followed, for an object, by one <<key, enabled, order>> triple per      *)
(* entry in insertion order.                                               *)
(*                                                                         *)
(* The server runs on one asyncio event loop: code between two awaits is   *)
(* one atomic step.  update_programs and update_render_tasks contain no    *)
(* await that suspends, so the whole upload handler is one action.         *)
(***************************************************************************)
EXTENDS Integers, Sequences, FiniteSets, TLC

\* ------------------------------------------------------------------ bounds
NumPrograms == 3
MaxUploads == 2
MaxEdits == 2
MaxFiles == 3
MaxRefresh == 2
MaxElapsed == 3

\* --------------------------------------------------------------- constants
CONFIG_KEY == 0
METADATA_NAME == 9
OBJ == 1
ARR == 2

Programs == 1..NumPrograms
METADATA_PATH == <<METADATA_NAME>>
SOURCE_TEXT == <<7>>
EmptyDir == <<>>

VARIABLES
    cache,            \* CACHE_DIR: function path -> content
    render_tasks,     \* the dict render_tasks: name -> task (slot, pc, outcome)
    cancelled_tasks,  \* tasks that were cancel()ed and have not yet run again
    gifs,             \* GIF_DIR: slot index -> what slot<i>.gif holds
    uploads,          \* number of /update requests handled so far
    response,         \* status payload of the last /update request
    reconcile_result, \* how update_render_tasks ended in the last request
    last_reconciled,  \* history: the last document update_render_tasks iterated
    cache_untouched,  \* history: the last request left CACHE_DIR as it was
    sources_kept,     \* history: loops running before the last request still
                      \*          have their source files
    reconcile_read,   \* history: what update_render_tasks found in CACHE_DIR
                      \*          when the last request called it
    star_programs,    \* the watched directory: function path -> content
    last_hash,        \* SyncService.last_hash
    poll_pc,          \* where SyncService.start is
    debounce_timer,   \* StarProgramsHandler.debounce_timer
    calls,            \* the running sync_to_server call of each caller
    edits,            \* number of changes made to the watched directory
    streak,           \* history: outcomes of the calls made in a row since
                      \*          the last change of the watched directory
    last_transfer,    \* history: how the last finished transfer ended
    dispatch_thread,  \* the thread in which the watcher calls on_any_event
    triggers,         \* number of debounce_sync tasks that wait out their
                      \*          quiet window
    window_left,      \* seconds left of the sleep of the handler's timer task
    since_event,      \* seconds since the last event reached on_any_event
    burst,            \* history: the events of the current burst, the
                      \*          sync_to_server calls the debouncer made for
                      \*          it, and what the last event's cancel() hit
    fingerprint,      \* history: the last two results of
                      \*          calculate_directory_hash and what changed
                      \*          in the directory between and after them
    orphans,          \* programs with a renderer process that was running
                      \*          when its loop was cancelled, and still is
    last_suspension   \* history: the sleep that ended the last pass of a
                      \*          render loop, in tenths of a second

server_vars == <<cache, render_tasks, cancelled_tasks, gifs, uploads, response,
                 reconcile_result, last_reconciled, cache_untouched, sources_kept,
                 reconcile_read>>

sync_vars == <<star_programs, last_hash, poll_pc, debounce_timer, calls, edits,
               streak, last_transfer, dispatch_thread, triggers>>

service_vars == <<last_hash, poll_pc, debounce_timer, calls, edits, streak,
                  last_transfer, dispatch_thread, triggers>>

debounce_clock == <<window_left, since_event, burst>>

aux_vars == <<debounce_clock, fingerprint, orphans, last_suspension>>

vars == <<server_vars, sync_vars, aux_vars>>

\* ------------------------------------------------------------- file systems
Path(name) == <<name>>

Exists(fs, path) == path \in DOMAIN fs

Restrict(fs, paths) == [p \in paths |-> fs[p]]

\* ------------------------------------------------------ configuration texts
RECURSIVE Flatten(_)
Flatten(items) ==
    IF items = <<>> THEN <<>>
    ELSE <<Head(items).name,
           IF Head(items).enabled THEN 1 ELSE 0,
           Head(items).order>> \o Flatten(Tail(items))

json_dumps(items) == <<OBJ>> \o Flatten(items)

RECURSIVE ParseItems(_)
ParseItems(bytes) ==
    IF bytes = <<>> THEN <<>>
    ELSE <<[name |-> bytes[1], enabled |-> (bytes[2] = 1), order |-> bytes[3]]>>
         \o ParseItems(SubSeq(bytes, 4, Len(bytes)))

\* json.load: a dict (items in insertion order), some other JSON value, or
\* a JSONDecodeError.
json_load(text) ==
    IF Len(text) >= 1 /\ text[1] = OBJ /\ (Len(text) - 1) % 3 = 0
    THEN [kind |-> "dict", items |-> ParseItems(Tail(text))]
    ELSE IF text = <<ARR>>
    THEN [kind |-> "nondict", items |-> <<>>]
    ELSE [kind |-> "error", items |-> <<>>]

\* ----------------------------------------------------------- display client
\* sorted(enabled_programs, key=order): Python's sort is stable.
RECURSIVE InsertByOrder(_, _)
InsertByOrder(sorted, p) ==
    IF sorted = <<>> THEN <<p>>
    ELSE IF Head(sorted).order <= p.order
         THEN <<Head(sorted)>> \o InsertByOrder(Tail(sorted), p)
         ELSE <<p>> \o sorted

RECURSIVE SortByOrder(_)
SortByOrder(programs) ==
    IF programs = <<>> THEN <<>>
    ELSE InsertByOrder(SortByOrder(SubSeq(programs, 1, Len(programs) - 1)),
                       programs[Len(programs)])

\* The for loop of load_program_metadata (lines 92-107).
RECURSIVE EnabledPrograms(_, _)
EnabledPrograms(items, enabled_programs) ==
    IF items = <<>> THEN enabled_programs
    ELSE IF Head(items).name = CONFIG_KEY
    THEN EnabledPrograms(Tail(items), enabled_programs)
    ELSE IF Head(items).enabled
    THEN EnabledPrograms(Tail(items),
            Append(enabled_programs,
                   [name |-> Head(items).name, order |-> Head(items).order,
                    slot |-> Len(enabled_programs)]))
    ELSE EnabledPrograms(Tail(items), enabled_programs)

\* load_program_metadata (lines 82-114): the programs to display, each with
\* the index N of the slot<N>.gif it is fetched from; empty on any error.
load_program_metadata(text) ==
    LET metadata == json_load(text)
    IN IF metadata.kind = "dict"
       THEN SortByOrder(EnabledPrograms(metadata.items, <<>>))
       ELSE <<>>

\* ------------------------------------------------------------- render tasks
NoGif == [by |-> 0, writer_cancelled |-> FALSE]

NewTask(slot_number) == [slot |-> slot_number, pc |-> "new", outcome |-> "none"]

\* The await a cancelled task gets its CancelledError at: that of the
\* renderer process, asyncio.sleep (line 118 or line 125), or none for a
\* task that has not run yet.
SuspendedIn(pc) == IF pc = "backoff" THEN "sleep" ELSE pc

\* task.cancel() on every handle of the dict (lines 139-141): the cancelled
\* tasks stay scheduled until the event loop runs them once more.
CancelAll(tasks) ==
    {[name |-> n, slot |-> tasks[n].slot, pc |-> SuspendedIn(tasks[n].pc)] :
        n \in DOMAIN tasks}

\* render_tasks[program_name] = task
SetTask(tasks, program_name, task) ==
    [n \in DOMAIN tasks \cup {program_name} |->
        IF n = program_name THEN task ELSE tasks[n]]

\* StartLoops with an index consumed by every enabled entry, also one whose
\* source file is missing.
RECURSIVE StartLoops_MissingConsumes(_, _, _, _)
StartLoops_MissingConsumes(items, fs, slot_number, tasks) ==
    IF items = <<>> THEN tasks
    ELSE LET program_name == Head(items).name
             config == Head(items)
         IN IF ~config.enabled
            THEN StartLoops_MissingConsumes(Tail(items), fs, slot_number, tasks)
            ELSE IF ~Exists(fs, Path(program_name))
            THEN StartLoops_MissingConsumes(Tail(items), fs, slot_number + 1, tasks)
            ELSE StartLoops_MissingConsumes(Tail(items), fs, slot_number + 1,
                            SetTask(tasks, program_name, NewTask(slot_number)))

\* The for loop of update_render_tasks (lines 146-172).
RECURSIVE StartLoops(_, _, _, _)
StartLoops(items, fs, slot_number, tasks) ==
    IF items = <<>> THEN tasks
    ELSE LET program_name == Head(items).name
             config == Head(items)
         IN IF ~config.enabled
            THEN StartLoops(Tail(items), fs, slot_number, tasks)
            ELSE IF ~Exists(fs, Path(program_name))
            THEN StartLoops(Tail(items), fs, slot_number, tasks)
            ELSE StartLoops(Tail(items), fs, slot_number + 1,
                            SetTask(tasks, program_name, NewTask(slot_number)))

\* update_render_tasks without render_tasks.clear(): the new handles are
\* added to the old dict.
update_render_tasks_NoClear(fs, tasks, cancelled) ==
    IF ~Exists(fs, METADATA_PATH)
    THEN [tasks |-> tasks, cancelled |-> cancelled,
          result |-> "no_metadata", raised |-> FALSE]
    ELSE LET metadata == json_load(fs[METADATA_PATH])
         IN IF metadata.kind = "error"
            THEN [tasks |-> tasks, cancelled |-> cancelled,
                  result |-> "json_error", raised |-> TRUE]
            ELSE IF metadata.kind = "nondict"
            THEN [tasks |-> tasks, cancelled |-> cancelled \cup CancelAll(tasks),
                  result |-> "items_error", raised |-> TRUE]
            ELSE [tasks |-> StartLoops(metadata.items, fs, 0, tasks),
                  cancelled |-> cancelled \cup CancelAll(tasks),
                  result |-> "ok", raised |-> FALSE]

\* update_render_tasks (lines 127-176) run against the cache fs.
update_render_tasks(fs, tasks, cancelled) ==
    IF ~Exists(fs, METADATA_PATH)
    THEN [tasks |-> tasks, cancelled |-> cancelled,
          result |-> "no_metadata", raised |-> FALSE]
    ELSE LET metadata == json_load(fs[METADATA_PATH])
         IN IF metadata.kind = "error"
            THEN [tasks |-> tasks, cancelled |-> cancelled,
                  result |-> "json_error", raised |-> TRUE]
            ELSE IF metadata.kind = "nondict"
            THEN [tasks |-> <<>>, cancelled |-> cancelled \cup CancelAll(tasks),
                  result |-> "items_error", raised |-> TRUE]
            ELSE [tasks |-> StartLoops(metadata.items, fs, 0, <<>>),
                  cancelled |-> cancelled \cup CancelAll(tasks),
                  result |-> "ok", raised |-> FALSE]

\* ClearCache for a handler that extracts over the old cache.
ClearCache_Keeps(fs) == fs

\* shutil.rmtree(CACHE_DIR); CACHE_DIR.mkdir() (lines 191-193).
ClearCache(fs) == EmptyDir

\* zip_ref.extractall(CACHE_DIR) (lines 196-197) as far as it got: the
\* members written replace or join the files of the directory.
extractall(fs, archive, members) ==
    [p \in DOMAIN fs \cup members |-> IF p \in members THEN archive[p] ELSE fs[p]]

\* What the handler leaves in CACHE_DIR (lines 186-197), by the stage at
\* which the request fails: storing the upload, opening the archive,
\* extracting it (only u.extracted was written), or not at all.
CacheAfter(u, fs) ==
    CASE u.stage = "tempfile" -> fs
      [] u.stage = "badzip"   -> ClearCache(fs)
      [] u.stage = "extract"  -> extractall(ClearCache(fs), u.fs, u.extracted)
      [] OTHER                -> extractall(ClearCache(fs), u.fs, DOMAIN u.fs)

\* No call of update_render_tasks in the request.
NoRead == [ran |-> FALSE, seen |-> EmptyDir, archive |-> EmptyDir,
           leftover |-> FALSE, after_error |-> FALSE]

\* POST /update (lines 178-210); `after` is the cache as the request leaves
\* it and r what update_render_tasks did, each computed once.
update_programs(u) ==
    /\ uploads < MaxUploads
    /\ uploads' = uploads + 1
    /\ \E after \in {CacheAfter(u, cache)} :
       \E r \in {IF u.stage = "ok"
                 THEN update_render_tasks(after, render_tasks, cancelled_tasks)
                 ELSE [tasks |-> render_tasks, cancelled |-> cancelled_tasks,
                       result |-> "not_run", raised |-> TRUE]} :
          /\ cache' = after
          /\ render_tasks' = r.tasks
          /\ cancelled_tasks' = r.cancelled
          /\ reconcile_result' = r.result
          /\ response' = IF r.raised THEN "error" ELSE "success"
          /\ last_reconciled' =
                IF r.result \in {"ok", "items_error"}
                THEN [items |-> json_load(after[METADATA_PATH]).items,
                      present |-> {n \in Programs : Exists(after, Path(n))}]
                ELSE last_reconciled
          /\ cache_untouched' = (after = cache)
          /\ sources_kept' = \A n \in DOMAIN render_tasks :
                                Exists(cache, Path(n)) => Exists(after, Path(n))
          /\ reconcile_read' =
                IF u.stage = "ok"
                THEN [ran |-> TRUE, seen |-> after, archive |-> u.fs,
                      leftover |-> DOMAIN cache \ DOMAIN u.fs # {},
                      after_error |-> response = "error"]
                ELSE NoRead
    /\ UNCHANGED gifs

\* ------------------------------------------------------------- render loops
\* StartRender for a loop that does not come back from the backoff sleep.
StartRender_NoRetry(n) ==
    /\ n \in DOMAIN render_tasks
    /\ render_tasks[n].pc \in {"new", "sleep"}
    /\ render_tasks' = [render_tasks EXCEPT ![n].pc = "render_app",
                                            ![n].outcome = "none"]
    /\ UNCHANGED <<cache, cancelled_tasks, gifs, uploads, response,
                   reconcile_result, last_reconciled, cache_untouched,
                   sources_kept, reconcile_read, sync_vars>>

\* continuous_render up to its first await inside render_app: the loop body
\* starts (first run, or a sleep of line 118 / 125 is over) and the external
\* renderer is spawned (lines 102-107, 54-70).
StartRender(n) ==
    /\ n \in DOMAIN render_tasks
    /\ render_tasks[n].pc \in {"new", "sleep", "backoff"}
    /\ render_tasks' = [render_tasks EXCEPT ![n].pc = "render_app",
                                            ![n].outcome = "none"]
    /\ UNCHANGED <<cache, cancelled_tasks, gifs, uploads, response,
                   reconcile_result, last_reconciled, cache_untouched,
                   sources_kept, reconcile_read, sync_vars>>

\* The suspension that follows one pass of the loop body (lines 107-125):
\* render_app and copy_to_slot turn every failure into False, which the
\* loop ignores; only an exception raised in the loop body itself (the
\* temp-file cleanup of lines 111-112) reaches the handler of line 123.
NextSuspension(cleanup_ok) == IF cleanup_ok THEN "sleep" ELSE "backoff"

\* The renderer process ends and the loop runs on to its next sleep.
FinishRender(n, rc_ok, copy_ok, cleanup_ok) ==
    /\ n \in DOMAIN render_tasks
    /\ render_tasks[n].pc = "render_app"
    /\ rc_ok => Exists(cache, Path(n))
    /\ LET t == render_tasks[n]
           outcome == IF ~rc_ok THEN "render_failed"
                      ELSE IF ~copy_ok THEN "copy_failed" ELSE "published"
       IN /\ gifs' = IF outcome = "published"
                     THEN [gifs EXCEPT ![t.slot] =
                              [by |-> n, writer_cancelled |-> FALSE]]
                     ELSE gifs
          /\ render_tasks' = [render_tasks EXCEPT
                                ![n].pc = NextSuspension(cleanup_ok),
                                ![n].outcome = outcome]
    /\ UNCHANGED <<cache, cancelled_tasks, uploads, response,
                   reconcile_result, last_reconciled, cache_untouched,
                   sources_kept, reconcile_read, sync_vars>>

\* CancelledStep for a cancellation that render_app swallows: the loop that
\* was waiting for its renderer goes on to publish.
CancelledStep_Swallowed(t) == [gif |-> t.pc = "render_app"]

\* A cancelled task is resumed with CancelledError at the await it was
\* suspended in (or before its first step); render_app's `except Exception`
\* does not catch it, line 120 re-raises it, and the task ends.
CancelledStep(t) == [gif |-> FALSE]

DeliverCancel(t) ==
    /\ t \in cancelled_tasks
    /\ cancelled_tasks' = cancelled_tasks \ {t}
    /\ gifs' = IF CancelledStep(t).gif
               THEN [gifs EXCEPT ![t.slot] =
                        [by |-> t.name, writer_cancelled |-> TRUE]]
               ELSE gifs
    /\ UNCHANGED <<cache, render_tasks, uploads, response, reconcile_result,
                   last_reconciled, cache_untouched, sources_kept,
                   reconcile_read, sync_vars>>

\* The renderer processes that the cancel loop of update_render_tasks
\* leaves behind: cancel() ends the task at `await process.communicate()`
\* (line 70) and does not touch the process, which goes on writing
\* TEMP_DIR/<program_name>.gif (line 100).
LeftRunning(tasks, result) ==
    IF result \in {"ok", "items_error"}
    THEN {n \in DOMAIN tasks : tasks[n].pc = "render_app"}
    ELSE {}

\* A renderer process without loop comes to its end.
OrphanEnds(n) ==
    /\ n \in orphans
    /\ orphans' = orphans \ {n}
    /\ UNCHANGED <<server_vars, sync_vars, debounce_clock, fingerprint,
                   last_suspension>>

\* Times in tenths of a second: the floor of line 116 and the sleep of
\* line 125.
SLEEP_FLOOR == 1
BACKOFF == 50

Max(a, b) == IF a >= b THEN a ELSE b

\* sleep_time without the floor.
sleep_time_NoFloor(refresh_rate, elapsed) == refresh_rate - elapsed

\* sleep_time = max(0.1, refresh_rate - elapsed) (line 116).
sleep_time(refresh_rate, elapsed) == Max(SLEEP_FLOOR, refresh_rate - elapsed)

\* The length of the suspension that follows one pass of the loop body.
Suspension(cleanup_ok, refresh_rate, elapsed) ==
    IF NextSuspension(cleanup_ok) = "sleep"
    THEN sleep_time(refresh_rate, elapsed)
    ELSE BACKOFF

NoSuspension == [name |-> 0, length |-> 0, overran |-> FALSE]

\* ------------------------------------------------------------ sync service
DOT == 46
NoHash == <<-1>>
HTTP_OK == 200
HTTP_ERROR == 500

Callers == {"poll", "debounce"}

Other(c) == IF c = "poll" THEN "debounce" ELSE "poll"

\* f.name.startswith('.')
Hidden(path) == path[1] = DOT

\* The files hashed and archived: `f.is_file() and not f.name.startswith('.')`.
TrackedFiles(fs) == {p \in DOMAIN fs : ~Hidden(p)}

\* Order of two paths under sorted().
RECURSIVE LexLess(_, _)
LexLess(a, b) ==
    IF b = <<>> THEN FALSE
    ELSE IF a = <<>> THEN TRUE
    ELSE IF Head(a) # Head(b) THEN Head(a) < Head(b)
    ELSE LexLess(Tail(a), Tail(b))

RECURSIVE SortPaths(_)
SortPaths(paths) ==
    IF paths = {} THEN <<>>
    ELSE LET first == CHOOSE p \in paths : \A q \in paths \ {p} : LexLess(p, q)
         IN <<first>> \o SortPaths(paths \ {first})

\* The bytes given to hasher.update, file by file (lines 75-82).
RECURSIVE HashStream(_, _)
HashStream(files, fs) ==
    IF files = <<>> THEN <<>>
    ELSE Head(files) \o fs[Head(files)] \o HashStream(Tail(files), fs)

\* calculate_directory_hash (lines 65-84); SHA-256 is taken as collision
\* free, so a digest is identified with the byte stream it was computed from.
calculate_directory_hash(fs) == HashStream(SortPaths(TrackedFiles(fs)), fs)

\* The orders in which rglob('*') can yield the files of a directory.
Listings(fs) ==
    {l \in [1..Cardinality(DOMAIN fs) -> DOMAIN fs] :
        \A i, j \in DOMAIN l : i # j => l[i] # l[j]}

RECURSIVE InsertPath(_, _)
InsertPath(files, p) ==
    IF files = <<>> THEN <<p>>
    ELSE IF LexLess(p, Head(files)) THEN <<p>> \o files
    ELSE <<Head(files)>> \o InsertPath(Tail(files), p)

\* sorted for a hash taken over the files as they are yielded.
sorted_AsYielded(files) == files

\* sorted(...) of line 70 applied to the files in the order of the traversal.
RECURSIVE sorted(_)
sorted(files) ==
    IF files = <<>> THEN <<>>
    ELSE InsertPath(sorted(Tail(files)), Head(files))

NotHidden(p) == ~Hidden(p)

\* calculate_directory_hash for a traversal that yields the files in the
\* order `listing`.
HashOfListing(listing, fs) ==
    HashStream(sorted(SelectSeq(listing, NotHidden)), fs)

NoFingerprint == [last |-> NoHash, previous |-> NoHash, change |-> "nothing",
                  pending |-> "nothing", reordered |-> FALSE]

\* One more call of calculate_directory_hash.
HashDirectory(listing) ==
    /\ listing \in Listings(star_programs)
    /\ fingerprint' =
          [last |-> HashOfListing(listing, star_programs),
           previous |-> fingerprint.last,
           change |-> fingerprint.pending,
           pending |-> "nothing",
           reordered |-> SelectSeq(listing, NotHidden)
                            # sorted(SelectSeq(listing, NotHidden))]
    /\ UNCHANGED <<server_vars, sync_vars, debounce_clock, orphans, last_suspension>>

\* Byte i of file p of the watched directory becomes b.
FlipByte(p, i, b) ==
    /\ p \in DOMAIN star_programs
    /\ i \in 1..Len(star_programs[p])
    /\ b # star_programs[p][i]
    /\ star_programs' = [star_programs EXCEPT ![p][i] = b]
    /\ fingerprint' =
          [fingerprint EXCEPT !.pending =
              IF Hidden(p) THEN @
              ELSE IF @ = "nothing" THEN "byte" ELSE "other"]
    /\ UNCHANGED <<server_vars, service_vars, debounce_clock, orphans,
                   last_suspension>>

\* create_zip_archive (lines 86-98).
create_zip_archive(fs) == Restrict(fs, TrackedFiles(fs))

Idle == [stage |-> "idle", current_hash |-> NoHash, zip |-> EmptyDir,
         status |-> 0, payload |-> "none", in_a_row |-> FALSE]

Last2(seq) == IF Len(seq) > 2 THEN SubSeq(seq, Len(seq) - 1, Len(seq)) ELSE seq

\* The caller of a sync_to_server call that has returned goes on.
Returned(c) ==
    /\ poll_pc' = IF c = "poll" THEN "sleeping" ELSE poll_pc
    /\ debounce_timer' = IF c = "debounce" THEN "done" ELSE debounce_timer

\* `if current_hash != self.last_hash` (line 105).
Changed(current_hash, hash) == current_hash # hash

\* sync_to_server up to the await of session.post (lines 100-119): hash the
\* directory, return if it is the confirmed one, else archive it and send it.
BeginSync(c) ==
    /\ \/ c = "poll" /\ poll_pc \in {"start", "sleeping"}
       \/ c = "debounce" /\ debounce_timer = "armed"
    /\ LET current_hash == calculate_directory_hash(star_programs)
           alone == calls[Other(c)].stage = "idle"
       IN IF Changed(current_hash, last_hash)
          THEN /\ calls' = [calls EXCEPT
                              ![c] = [stage |-> "post", current_hash |-> current_hash,
                                      zip |-> create_zip_archive(star_programs),
                                      status |-> 0, payload |-> "none",
                                      in_a_row |-> alone],
                              ![Other(c)].in_a_row = FALSE]
               /\ poll_pc' = IF c = "poll" THEN "syncing" ELSE poll_pc
               /\ debounce_timer' = IF c = "debounce" THEN "syncing" ELSE debounce_timer
               /\ UNCHANGED streak
          ELSE /\ calls' = [calls EXCEPT ![Other(c)].in_a_row = FALSE]
               /\ Returned(c)
               /\ streak' = IF alone THEN Last2(Append(streak, "skipped")) ELSE <<>>
    /\ triggers' = IF c = "debounce" THEN triggers - 1 ELSE triggers
    /\ UNCHANGED <<server_vars, star_programs, last_hash, edits, last_transfer,
                   dispatch_thread>>

\* The update endpoint handles the request of call c and answers; FastAPI
\* sends the dict the handler returns with status 200 (lines 202, 210).
ServerHandles(c, stage) ==
    /\ calls[c].stage = "post"
    /\ update_programs([stage |-> stage, fs |-> calls[c].zip, extracted |-> {}])
    /\ calls' = [calls EXCEPT ![c].stage = "responded", ![c].status = HTTP_OK,
                              ![c].payload = response']
    /\ UNCHANGED <<star_programs, last_hash, poll_pc, debounce_timer, edits,
                   streak, last_transfer, dispatch_thread, triggers>>

\* Something between the service and the handler answers with another status.
ServerRejects(c) ==
    /\ calls[c].stage = "post"
    /\ calls' = [calls EXCEPT ![c].stage = "responded", ![c].status = HTTP_ERROR]
    /\ UNCHANGED <<server_vars, star_programs, last_hash, poll_pc,
                   debounce_timer, edits, streak, last_transfer,
                   dispatch_thread, triggers>>

\* HashAfter for a service that never records the confirmed hash.
HashAfter_NeverAdvances(status, payload, current_hash, hash) == hash

\* last_hash after a response (lines 120-124).
HashAfter(status, payload, current_hash, hash) ==
    IF status = HTTP_OK THEN current_hash ELSE hash

\* The response arrives and sync_to_server returns (lines 119-127).
ReceiveResponse(c) ==
    /\ calls[c].stage = "responded"
    /\ last_hash' = HashAfter(calls[c].status, calls[c].payload,
                              calls[c].current_hash, last_hash)
    /\ last_transfer' = [status |-> calls[c].status, payload |-> calls[c].payload,
                         sent |-> calls[c].current_hash, before |-> last_hash,
                         after |-> last_hash']
    /\ streak' = IF calls[c].in_a_row
                 THEN Last2(Append(streak,
                        IF calls[c].status = HTTP_OK THEN "confirmed" ELSE "failed"))
                 ELSE <<>>
    /\ calls' = [calls EXCEPT ![c] = Idle]
    /\ Returned(c)
    /\ UNCHANGED <<server_vars, star_programs, edits, dispatch_thread, triggers>>

\* AfterError for a sync_to_server that lets the error out: in the poll
\* loop it reaches the handler of line 155, which ends start().
AfterError_Propagates(c) ==
    /\ poll_pc' = IF c = "poll" THEN "stopped" ELSE poll_pc
    /\ debounce_timer' = IF c = "debounce" THEN "done" ELSE debounce_timer

\* `except Exception` (lines 129-130): the error is logged and
\* sync_to_server returns to its caller.
AfterError(c) == Returned(c)

\* The request fails (aiohttp raises a ClientError or times out).
NetworkError(c) ==
    /\ calls[c].stage \in {"post", "responded"}
    /\ last_transfer' = [status |-> 0, payload |-> "none",
                         sent |-> calls[c].current_hash, before |-> last_hash,
                         after |-> last_hash]
    /\ streak' = IF calls[c].in_a_row THEN Last2(Append(streak, "failed")) ELSE <<>>
    /\ calls' = [calls EXCEPT ![c] = Idle]
    /\ AfterError(c)
    /\ UNCHANGED <<server_vars, star_programs, last_hash, edits,
                   dispatch_thread, triggers>>

\* debounce_timer.cancel() (lines 42-43): the timer task ends with
\* CancelledError at the await it is suspended in, that of the quiet window
\* or that of session.post inside sync_to_server.
CancelTimer(cs) == [cs EXCEPT !["debounce"] = Idle]

\* What that cancel() hits: no task (the handle is None or its task is
\* done), a task in its quiet window, or a task inside sync_to_server.
CancelHits(timer) ==
    CASE timer = "armed"   -> "window"
      [] timer = "syncing" -> "transfer"
      [] OTHER             -> "nothing"

\* CancelPending for a handler that arms a new timer without cancelling the
\* one it holds.
CancelPending_Keeps(timer, pending) == pending

\* The triggers still waiting out their window after that cancel().
CancelPending(timer, pending) ==
    IF CancelHits(timer) = "window" THEN pending - 1 ELSE pending

\* `if event.is_directory or event.src_path.endswith('.tmp'): return`
Events == {"lost", "directory", "tmp", "file"}

Filtered(event) == event \in {"directory", "tmp"}

\* asyncio.create_task (line 46) raises RuntimeError("no running event
\* loop") in a thread that does not run the event loop.
DispatchThreads == {"observer", "loop"}

create_task_raises(thread) == thread # "loop"

QUIET_WINDOW == 2

NoBurst == [events |-> 0, syncs |-> 0, early |-> FALSE, cancelled |-> "nothing"]

\* on_any_event (lines 35-46) for an event that is not filtered.  In the
\* watcher's own thread the handle is still None, create_task raises and
\* nothing is armed; in the event loop's thread the timer task is
\* cancelled and replaced.
on_any_event(cs) ==
    IF create_task_raises(dispatch_thread)
    THEN /\ calls' = cs
         /\ UNCHANGED <<debounce_timer, triggers>>
    ELSE /\ calls' = CancelTimer(cs)
         /\ debounce_timer' = "armed"
         /\ triggers' = CancelPending(debounce_timer, triggers) + 1

\* The watched directory changes to d.  The change reaches the handler as
\* an event, or the notification is lost.
Edit(d, event) ==
    /\ edits < MaxEdits
    /\ d # star_programs
    /\ edits' = edits + 1
    /\ star_programs' = d
    /\ streak' = <<>>
    /\ LET overlapped == [c \in Callers |-> [calls[c] EXCEPT !.in_a_row = FALSE]]
       IN IF event = "lost" \/ Filtered(event)
          THEN /\ calls' = overlapped
               /\ UNCHANGED <<debounce_timer, triggers>>
          ELSE on_any_event(overlapped)
    /\ UNCHANGED <<server_vars, last_hash, last_transfer, poll_pc, dispatch_thread>>

\* ------------------------------------------------------------------ inputs
Entry(n, e, o) == [name |-> n, enabled |-> e, order |-> o]

WithMeta(fs, text) ==
    [p \in DOMAIN fs \cup {METADATA_PATH} |->
        IF p = METADATA_PATH THEN text ELSE fs[p]]

Sources(S) == [p \in {Path(n) : n \in S} |-> SOURCE_TEXT]

Zip(stage, fs, extracted) == [stage |-> stage, fs |-> fs, extracted |-> extracted]

\* Every document over the programs: any insertion order, any enabled flags
\* (the server never reads the order field).
Items == [name : Programs, enabled : BOOLEAN, order : {1}]

DistinctNames(d) == \A i, j \in DOMAIN d : i # j => d[i].name # d[j].name

Docs == UNION {{d \in [1..k -> Items] : DistinctNames(d)} : k \in 0..NumPrograms}

AllArchives ==
    {WithMeta(Sources(S), json_dumps(d)) : S \in SUBSET Programs, d \in Docs}

AllUploads == {Zip("ok", a, DOMAIN a) : a \in AllArchives}

\* The uploads the render loops are run against: programs 1, 2, 3 (A, B, C);
\* the reserved _config entry is an object without `enabled`.
DocAC == <<Entry(CONFIG_KEY, FALSE, 1),
           Entry(1, TRUE, 1), Entry(2, FALSE, 2), Entry(3, TRUE, 2)>>
DocCA == <<Entry(3, TRUE, 2), Entry(1, TRUE, 1)>>
DocAB == <<Entry(1, TRUE, 2), Entry(2, TRUE, 1)>>

Archives ==
    { WithMeta(Sources({1, 2, 3}), json_dumps(DocAC)),
      WithMeta(Sources({1, 2, 3}), json_dumps(DocCA)),
      WithMeta(Sources({2}), json_dumps(DocAB)),
      WithMeta(Sources({1, 2}), <<ARR>>),
      WithMeta(Sources({1, 2}), <<>>),
      Sources({1}) }

Uploads ==
    {Zip("ok", a, DOMAIN a) : a \in Archives}
    \cup {Zip("tempfile", EmptyDir, {}), Zip("badzip", EmptyDir, {})}
    \cup {Zip("extract", WithMeta(Sources({1, 2, 3}), json_dumps(DocAC)), e) :
            e \in {{METADATA_PATH}, {Path(1)}}}

\* The states of the watched directory: documents AC and CA with the sources
\* of programs 1 and 3, the same with a hidden file added, and a document
\* that is not JSON.
HiddenFile(fs) == [p \in DOMAIN fs \cup {<<DOT>>} |-> IF p = <<DOT>> THEN SOURCE_TEXT ELSE fs[p]]

DirAC == WithMeta(Sources({1, 3}), json_dumps(DocAC))
DirCA == WithMeta(Sources({1, 3}), json_dumps(DocCA))
DirBroken == WithMeta(Sources({1, 3}), <<>>)

DirStates == {DirAC, DirCA, DirBroken, HiddenFile(DirAC)}

\* ----------------------------------------------------------- specification
InitWith(thread, dir) ==
    /\ cache = EmptyDir
    /\ render_tasks = <<>>
    /\ cancelled_tasks = {}
    /\ gifs = [i \in 0..(NumPrograms - 1) |-> NoGif]
    /\ uploads = 0
    /\ response = "none"
    /\ reconcile_result = "not_run"
    /\ last_reconciled = [items |-> <<>>, present |-> {}]
    /\ cache_untouched = TRUE
    /\ sources_kept = TRUE
    /\ reconcile_read = NoRead
    /\ star_programs = dir
    /\ last_hash = NoHash
    /\ poll_pc = "start"
    /\ debounce_timer = "none"
    /\ calls = [c \in Callers |-> Idle]
    /\ edits = 0
    /\ streak = <<>>
    /\ last_transfer = [status |-> 0, payload |-> "none", sent |-> NoHash,
                        before |-> NoHash, after |-> NoHash]
    /\ dispatch_thread = thread
    /\ triggers = 0
    /\ window_left = 0
    /\ since_event = QUIET_WINDOW
    /\ burst = NoBurst
    /\ fingerprint = NoFingerprint
    /\ orphans = {}
    /\ last_suspension = NoSuspension

\* The server with the sync service started by main(): watchdog's Observer
\* calls the handler in its own thread.
Init == InitWith("observer", DirAC)

Upload == \E u \in Uploads : update_programs(u) /\ UNCHANGED <<sync_vars, aux_vars>>

Render == \E n \in Programs : StartRender(n) /\ UNCHANGED aux_vars

Finish == \E n \in Programs, rc_ok, copy_ok, cleanup_ok \in BOOLEAN :
              FinishRender(n, rc_ok, copy_ok, cleanup_ok) /\ UNCHANGED aux_vars

Cancelled == \E t \in cancelled_tasks : DeliverCancel(t) /\ UNCHANGED aux_vars

Next == Upload \/ Render \/ Finish \/ Cancelled

Spec == Init /\ [][Next]_vars

\* The render loops with a renderer that fails on every invocation for
\* program Broken and succeeds for every other program whose source file
\* is in the cache, and a writable slot directory.  The event loop runs
\* every task that is ready, and every renderer process ends.
Broken == CHOOSE n \in Programs : \A m \in Programs : n <= m

LiveUploads ==
    {Zip("ok", a, DOMAIN a) :
        a \in {WithMeta(Sources({1, 2, 3}), json_dumps(DocAC)),
               WithMeta(Sources({1, 2, 3}), json_dumps(DocCA)),
               WithMeta(Sources({2}), json_dumps(DocAB)),
               Sources({1})}}

SleepUploads ==
    {Zip("ok", a, DOMAIN a) : a \in {WithMeta(Sources({1, 2, 3}), json_dumps(DocAC))}}

LiveUpload == \E u \in LiveUploads : update_programs(u) /\ UNCHANGED <<sync_vars, aux_vars>>

RendererEnds(n) ==
    \E cleanup_ok \in BOOLEAN :
        FinishRender(n, n # Broken /\ Exists(cache, Path(n)), TRUE, cleanup_ok)

LiveFinish == \E n \in Programs : RendererEnds(n) /\ UNCHANGED aux_vars

LiveNext == LiveUpload \/ Render \/ LiveFinish \/ Cancelled

LiveSpec ==
    /\ Init
    /\ [][LiveNext]_vars
    /\ \A n \in Programs :
          /\ WF_vars(StartRender(n) /\ UNCHANGED aux_vars)
          /\ WF_vars(RendererEnds(n) /\ UNCHANGED aux_vars)

\* Reconciliation alone: a sequence of upload requests whose last one carries
\* any document over the programs and any set of source files.
AssignUpload ==
    \E u \in (IF uploads + 1 = MaxUploads THEN AllUploads \cup Uploads ELSE Uploads) :
        update_programs(u) /\ UNCHANGED <<sync_vars, aux_vars>>

AssignNext == AssignUpload

AssignSpec == Init /\ [][AssignNext]_vars

\* The sync service against the update endpoint.
\* The time of the quiet window is left out here: the
\* sleep of a timer task may end at any moment.
SyncInit == \E thread \in DispatchThreads : InitWith(thread, DirAC)

Check == \E c \in Callers : BeginSync(c) /\ UNCHANGED aux_vars

Handle == \E c \in Callers, stage \in {"ok", "tempfile", "extract"} :
            ServerHandles(c, stage) /\ UNCHANGED aux_vars

Reject == \E c \in Callers : ServerRejects(c) /\ UNCHANGED aux_vars

Receive == \E c \in Callers : ReceiveResponse(c) /\ UNCHANGED aux_vars

Fail == \E c \in Callers : NetworkError(c) /\ UNCHANGED aux_vars

Change == \E d \in DirStates, event \in {"lost", "file"} :
            Edit(d, event) /\ UNCHANGED aux_vars

SyncNext == Check \/ Handle \/ Reject \/ Receive \/ Fail \/ Change

SyncSpec == SyncInit /\ [][SyncNext]_vars

\* The render loops with the renderer processes that outlive their loops.
TempUpload ==
    \E u \in LiveUploads :
        /\ update_programs(u)
        /\ orphans' = orphans \cup LeftRunning(render_tasks, reconcile_result')
        /\ UNCHANGED <<sync_vars, debounce_clock, fingerprint, last_suspension>>

OrphanEnd == \E n \in Programs : OrphanEnds(n)

TempNext == TempUpload \/ Render \/ Finish \/ Cancelled \/ OrphanEnd

TempSpec == Init /\ [][TempNext]_vars

\* The render loops with the length of their sleeps: any refresh_rate and
\* any time taken by a pass, in tenths of a second, and a writable slot
\* directory.
RefreshRates == 0..MaxRefresh

ElapsedTimes == 0..MaxElapsed

SleepUpload ==
    \E u \in SleepUploads : update_programs(u) /\ UNCHANGED <<sync_vars, aux_vars>>

TimedFinish ==
    \E n \in Programs, rc_ok, cleanup_ok \in BOOLEAN,
       refresh_rate \in RefreshRates, elapsed \in ElapsedTimes :
        /\ FinishRender(n, rc_ok, TRUE, cleanup_ok)
        /\ last_suspension' =
              [name |-> n,
               length |-> Suspension(cleanup_ok, refresh_rate, elapsed),
               overran |-> cleanup_ok /\ elapsed > refresh_rate]
        /\ UNCHANGED <<debounce_clock, fingerprint, orphans>>

SleepNext == SleepUpload \/ Render \/ TimedFinish \/ Cancelled

SleepSpec == Init /\ [][SleepNext]_vars

\* calculate_directory_hash over small directories: files named by one or
\* two bytes, a hidden one among them, with contents of at most one byte.
HashBytes == {1, 2}

HashPaths == {<<1>>, <<2>>, <<1, 2>>, <<DOT>>}

HashContents == {<<>>} \cup [1..1 -> HashBytes]

HashDirs ==
    UNION {[S -> HashContents] :
             S \in {T \in SUBSET HashPaths : Cardinality(T) <= MaxFiles}}

HashInit == \E dir \in HashDirs : InitWith("observer", dir)

Traverse == \E listing \in Listings(star_programs) : HashDirectory(listing)

Flip == \E p \in HashPaths, i \in 1..1, b \in HashBytes : FlipByte(p, i, b)

HashNext == Traverse \/ Flip

HashSpec == HashInit /\ [][HashNext]_vars

\* The handler and its timer task with the time of the quiet window, in
\* steps of one second.  A sleep may end late, never early.
TimedEvent ==
    \E d \in DirStates, event \in Events :
        /\ Edit(d, event)
        /\ UNCHANGED <<fingerprint, orphans, last_suspension>>
        /\ IF event = "lost" \/ Filtered(event)
           THEN UNCHANGED debounce_clock
           ELSE /\ since_event' = 0
                /\ window_left' = IF create_task_raises(dispatch_thread)
                                  THEN window_left
                                  ELSE QUIET_WINDOW
                /\ burst' =
                      IF since_event < QUIET_WINDOW
                      THEN [burst EXCEPT
                              !.events = @ + 1,
                              !.cancelled = CancelHits(debounce_timer)]
                      ELSE [events |-> 1, syncs |-> 0, early |-> FALSE,
                            cancelled |-> CancelHits(debounce_timer)]

Tick ==
    /\ window_left > 0 \/ since_event < QUIET_WINDOW
    /\ window_left' = IF window_left > 0 THEN window_left - 1 ELSE window_left
    /\ since_event' = IF since_event < QUIET_WINDOW THEN since_event + 1
                      ELSE since_event
    /\ UNCHANGED <<server_vars, sync_vars, burst, fingerprint, orphans,
                   last_suspension>>

\* debounce_sync (lines 48-51): the sleep is over and sync_to_server is called.
Fire ==
    /\ window_left = 0
    /\ BeginSync("debounce")
    /\ burst' = [burst EXCEPT !.syncs = @ + 1,
                              !.early = since_event < QUIET_WINDOW]
    /\ UNCHANGED <<window_left, since_event, fingerprint, orphans,
                   last_suspension>>

DebounceNext == TimedEvent \/ Tick \/ Fire \/ Handle \/ Reject \/ Receive \/ Fail

DebounceSpec == SyncInit /\ [][DebounceNext]_vars

\* The poll loop of start() on its own: no event arms the debouncer, a
\* transfer can fail any number of times, and the endpoint answers a
\* request that is sent to it again and again.  The event loop runs every
\* task that is ready.  The directory changes while requests remain for
\* sending its last state.
PollCheck == BeginSync("poll") /\ UNCHANGED aux_vars

PollServed ==
    \E stage \in {"ok", "tempfile", "extract"} :
        ServerHandles("poll", stage) /\ UNCHANGED aux_vars

PollRejected == ServerRejects("poll") /\ UNCHANGED aux_vars

PollReceive == ReceiveResponse("poll") /\ UNCHANGED aux_vars

PollFail == calls["poll"].stage = "post" /\ NetworkError("poll") /\ UNCHANGED aux_vars

PollChange ==
    /\ edits + 1 < MaxUploads
    /\ \E d \in DirStates, event \in Events : Edit(d, event)
    /\ UNCHANGED aux_vars

PollNext ==
    PollCheck \/ PollServed \/ PollRejected \/ PollReceive \/ PollFail \/ PollChange

PollSpec ==
    /\ Init
    /\ [][PollNext]_vars
    /\ WF_vars(PollCheck)
    /\ WF_vars(PollReceive)
    /\ SF_vars(PollServed)

\* The poll loop over the small directories of the hash: the directory is
\* replaced as a whole (files renamed, rewritten, added or removed at once),
\* the watcher's event arms nothing, and the endpoint applies every archive
\* it is sent.  A request can fail before it reaches the endpoint.
Applied == ServerHandles("poll", "ok") /\ UNCHANGED aux_vars

Rewrite ==
    /\ edits + 1 < MaxUploads
    /\ \E d \in HashDirs : Edit(d, "file")
    /\ UNCHANGED aux_vars

RewriteNext == PollCheck \/ Applied \/ PollReceive \/ PollFail \/ Rewrite

RewriteSpec == HashInit /\ [][RewriteNext]_vars

\* ================================================================== claims
\* The document in the cache, as update_render_tasks reads it.
Metadata ==
    IF Exists(cache, METADATA_PATH) THEN json_load(cache[METADATA_PATH]).items ELSE <<>>

\* Entry i of a document is enabled and its source file is in `present`.
Eligible(items, present, i) == items[i].enabled /\ items[i].name \in present

EligibleSet(items, present) == {i \in 1..Len(items) : Eligible(items, present, i)}

\* Number of eligible entries before entry i.
Rank(items, present, i) ==
    Cardinality({j \in 1..(i - 1) : Eligible(items, present, j)})

InCache == {n \in Programs : Exists(cache, Path(n))}

SlotsOf(tasks) == {tasks[n].slot : n \in DOMAIN tasks}

\* C1: after a reconciliation that read a document, the loops are exactly
\* those of the enabled entries whose source file is in the cache, the i-th
\* of them in insertion order has slot index i, and the indices are 0..N-1;
\* an enabled entry without source file has no loop and uses no index.
C1_SlotsFollowDocumentOrder ==
    reconcile_result = "ok" =>
        LET items == Metadata
            E == EligibleSet(items, InCache)
        IN /\ DOMAIN render_tasks = {items[i].name : i \in E}
           /\ \A i \in E : render_tasks[items[i].name].slot = Rank(items, InCache, i)
           /\ SlotsOf(render_tasks) = 0..(Cardinality(DOMAIN render_tasks) - 1)

\* A reconciliation in which an enabled entry without source file precedes
\* a started program and two started programs are not in name order.
C1_Witness ==
    /\ reconcile_result = "ok"
    /\ LET items == Metadata
       IN /\ \E i, j \in 1..Len(items) :
                /\ i < j
                /\ items[i].enabled /\ items[i].name \notin InCache
                /\ Eligible(items, InCache, j)
          /\ \E i, j \in EligibleSet(items, InCache) :
                i < j /\ items[i].name > items[j].name

\* C2 as stated: the loops in render_tasks are exactly the enabled programs
\* of the most recently reconciled document.
C2_OneLoopPerEnabledProgram ==
    DOMAIN render_tasks =
        {last_reconciled.items[i].name :
            i \in {j \in 1..Len(last_reconciled.items) : last_reconciled.items[j].enabled}}

\* C2 amended: the loops in render_tasks are exactly the enabled programs of
\* the most recently reconciled document whose source file was in the cache
\* at that reconciliation, in its slot order; no handle of an earlier
\* reconciliation is left in the dict.
C2_OneLoopPerEnabledProgramWithSource ==
    LET items == last_reconciled.items
        E == EligibleSet(items, last_reconciled.present)
    IN /\ DOMAIN render_tasks = {items[i].name : i \in E}
       /\ \A i \in E :
            render_tasks[items[i].name].slot = Rank(items, last_reconciled.present, i)

\* The end-to-end scenario: A, B, C all enabled gives A->0, B->1, C->2 after
\* the loops A->0, C->1 of the earlier document were cancelled.
C2_Witness ==
    /\ Len(last_reconciled.items) = 3
    /\ \A i \in 1..3 : last_reconciled.items[i].name = i /\ last_reconciled.items[i].enabled
    /\ DOMAIN render_tasks = {1, 2, 3}
    /\ \A n \in 1..3 : render_tasks[n].slot = n - 1
    /\ {[name |-> 1, slot |-> 0, pc |-> "new"],
        [name |-> 3, slot |-> 1, pc |-> "new"]} \subseteq cancelled_tasks

\* C3: the slot index the display client derives for a program from the
\* document is the index the server bound that program's loop to.
C3_ClientSlotIsServerSlot ==
    reconcile_result = "ok" =>
        LET programs == load_program_metadata(cache[METADATA_PATH])
        IN \A k \in 1..Len(programs) :
            programs[k].name \in DOMAIN render_tasks
                => programs[k].slot = render_tasks[programs[k].name].slot

\* C4: a loop whose render or publish failed is suspended in the 5-second
\* backoff.
C4_FailureEntersBackoff ==
    \A n \in DOMAIN render_tasks :
        render_tasks[n].outcome \in {"render_failed", "copy_failed"}
            => render_tasks[n].pc = "backoff"

\* C5: a loop that is not cancelled starts its renderer again and again,
\* also when every render fails, and every loop of another program whose
\* source file is there publishes again and again.
C5_LoopsRetryForever ==
    /\ \A n \in Programs :
          []<>(n \notin DOMAIN render_tasks \/ render_tasks[n].pc = "render_app")
    /\ \A n \in Programs \ {Broken} :
          []<>(\/ n \notin DOMAIN render_tasks
               \/ ~Exists(cache, Path(n))
               \/ render_tasks[n].outcome = "published")

\* The loop of the broken program is in the backoff after a failed render
\* while another program's loop has published to its slot.
C5_Witness ==
    /\ Broken \in DOMAIN render_tasks
    /\ render_tasks[Broken].outcome = "render_failed"
    /\ render_tasks[Broken].pc = "backoff"
    /\ \E m \in DOMAIN render_tasks \ {Broken} :
          /\ render_tasks[m].outcome = "published"
          /\ gifs[render_tasks[m].slot].by = m

\* C6: no slot file was written by a loop that had been cancelled, and the
\* loops able to write are bound to distinct slots.
C6_CancelledLoopNeverWrites ==
    /\ \A i \in DOMAIN gifs : ~gifs[i].writer_cancelled
    /\ \A n, m \in DOMAIN render_tasks :
            n # m => render_tasks[n].slot # render_tasks[m].slot

\* A loop that had published to its slot was cancelled while its renderer
\* was running, and the slot index is bound to another program's loop.
C6_Witness ==
    \E t \in cancelled_tasks :
        /\ t.pc = "render_app"
        /\ gifs[t.slot].by = t.name
        /\ \E n \in DOMAIN render_tasks :
              n # t.name /\ render_tasks[n].slot = t.slot

\* C7: a reconciliation that found no document or an unparseable one leaves
\* no render loop.
C7_ConfigurationFailureLeavesNoLoops ==
    reconcile_result \in {"no_metadata", "json_error"} => render_tasks = <<>>

\* C10: after an error response the cache is as it was before the request
\* and the loops that were running still have their source files.
C10_ErrorLeavesCacheUntouched ==
    response = "error" => cache_untouched /\ sources_kept

\* C8 as stated: two calls of sync_to_server in a row, with no change of the
\* watched directory, make at most one transfer.
C8_AtMostOneTransfer ==
    Len(streak) = 2 => ~(streak[1] # "skipped" /\ streak[2] # "skipped")

\* C8 amended: of two calls in a row with no change of the watched
\* directory, the second makes no transfer unless the first made one that
\* failed (network error or a status other than 200).
C8_NoTransferAfterConfirmedOne ==
    Len(streak) = 2 /\ streak[1] \in {"skipped", "confirmed"} => streak[2] = "skipped"

\* Two calls in a row, the first with a confirmed transfer, the second with
\* none.
C8_Witness == streak = <<"confirmed", "skipped">>

\* C9: last_hash changes only when the endpoint confirmed success, and then
\* to the hash computed at the start of the sync.
C9_HashAdvancesOnlyOnSuccess ==
    /\ last_transfer.payload # "success" => last_transfer.after = last_transfer.before
    /\ last_transfer.after # last_transfer.before => last_transfer.after = last_transfer.sent

\* C11: the cache that update_render_tasks reads in an upload request holds
\* exactly the files of that request's archive, each with the archive's
\* content: nothing of the archive is missing and nothing of an earlier
\* request is left.
C11_ReconciliationReadsWholeArchive ==
    reconcile_read.ran => reconcile_read.seen = reconcile_read.archive

\* A reconciliation that read a document, in a request that followed a
\* failed one and found files in the cache that its archive does not have.
C11_Witness ==
    /\ reconcile_read.ran
    /\ reconcile_read.leftover
    /\ reconcile_read.after_error
    /\ reconcile_result = "ok"

\* C12: the events of a burst, each less than 2 seconds after the one
\* before, make the debouncer call sync_to_server exactly once: never
\* twice, never within 2 seconds of the last event, and as long as the call
\* has not been made a trigger is armed for it.
C12_BurstTriggersOneSync ==
    /\ burst.syncs <= 1
    /\ ~burst.early
    /\ burst.events >= 1 /\ burst.syncs = 0 => debounce_timer = "armed"

\* The fingerprint of the watched directory as it is now.
DirHash == calculate_directory_hash(star_programs)

C14_HashOfTrackedFilesOnly ==
    /\ fingerprint.last # NoHash /\ fingerprint.pending = "nothing"
          => fingerprint.last = calculate_directory_hash(star_programs)
    /\ fingerprint.previous # NoHash /\ fingerprint.change = "nothing"
          => fingerprint.last = fingerprint.previous
    /\ fingerprint.previous # NoHash /\ fingerprint.change = "byte"
          => fingerprint.last # fingerprint.previous

\* The directory with two tracked files was hashed, one byte of a tracked
\* file changed, and it was hashed again from a traversal that did not
\* yield the files in sorted order.
C14_Witness ==
    /\ Cardinality(TrackedFiles(star_programs)) >= 2
    /\ fingerprint.previous # NoHash
    /\ fingerprint.change = "byte"
    /\ fingerprint.reordered
    /\ fingerprint.pending = "nothing"

\* C15: at most one debounce_sync task waits out its quiet window, and it
\* is the task the handler holds: a task that an event cancelled is not
\* waiting any more, so only the held task can go on to sync_to_server.
C15_AtMostOnePendingTrigger ==
    /\ triggers <= 1
    /\ triggers = 1 <=> debounce_timer = "armed"

\* An event arrived within the quiet window of the trigger armed by the
\* event before it: that trigger was cancelled and one trigger is waiting.
C15_Witness ==
    /\ burst.events = 2
    /\ burst.cancelled = "window"
    /\ triggers = 1
    /\ window_left = QUIET_WINDOW

\* C16: no renderer process left behind by a cancelled loop is running
\* while the loop now started for the same program has its own renderer
\* running: the two would write the same file TEMP_DIR/<program_name>.gif.
C16_TempOutputIsPrivate ==
    \A n \in orphans :
        ~(n \in DOMAIN render_tasks /\ render_tasks[n].pc = "render_app")

\* C17: the sleep between two renders of a loop is never shorter than
\* 0.1 s, whatever the refresh_rate and the time the pass took.
C17_SleepNeverBelowFloor ==
    last_suspension.name # 0 => last_suspension.length >= SLEEP_FLOOR

\* A pass took longer than the refresh_rate, the loop slept for the floor
\* and has started its next render.
C17_Witness ==
    /\ last_suspension.overran
    /\ last_suspension.length = SLEEP_FLOOR
    /\ last_suspension.name \in DOMAIN render_tasks
    /\ render_tasks[last_suspension.name].pc = "render_app"

\* C18: the slot file of every running loop, once written, holds a render
\* of the program that the loop belongs to.
C18_SlotHoldsOwnersOutput ==
    \A n \in DOMAIN render_tasks : gifs[render_tasks[n].slot].by \in {0, n}

C21_NoRealChangeSkipped ==
    streak # <<>> /\ streak[Len(streak)] = "skipped"
        => create_zip_archive(star_programs) = cache

====
